---- MODULE Spec2Model ----
(***************************************************************************)
(* State-machine model of the useWebmesh hook (src/src/useWebmesh.ts).     *)
(*                                                                         *)
(* The hook keeps the list of networks in a React state cell.  The cell    *)
(* holds a reference to a JavaScript array; upsertNetwork/removeNetwork    *)
(* mutate, in place, the array that the closure of the render they were    *)
(* created in captured, and then store that same reference back into the   *)
(* cell.  listNetworks stores a fresh array.  The model therefore keeps a  *)
(* heap of arrays, the reference held by the state cell (cur) and the      *)
(* reference captured by the closures of the last render (rendered).       *)
(*                                                                         *)
(* One step of the model is one JavaScript task: a call made by the user,  *)
(* a timer callback, or the delivery of an RPC response together with the  *)
(* promise reactions (microtasks) it triggers.                             *)
(***************************************************************************)
EXTENDS Integers, Sequences, FiniteSets, TLC

\* ---------------------------------------------------------------- bounds
MaxOps == 2          \* workflow calls made by the user in one behaviour
MaxTicks == 2        \* firings of list-refresh timers in one behaviour
MaxSessions == 2     \* runs of the session effect (mount + options changes)
MaxMTimers == 2      \* metrics timers created in one behaviour
MaxMRpcs == 2        \* metrics RPCs issued in one behaviour

\* ---------------------------------------------------------------- values
Ids == {"n1", "n2"}
NoId == ""
IdLists == {<< >>, <<"n1">>, <<"n2">>, <<"n1", "n2">>}
Status == {"disconnected", "connected"}
CallerParams == "P"    \* parameters and metadata given by the caller of putNetwork
DaemonParams == "D"    \* parameters and metadata in a snapshot sent by the daemon
Entity == [id : Ids, status : Status, par : {CallerParams, DaemonParams}]
NoTimer == 0

\* The answers the daemon can give to listConnections: a map from id to
\* connection snapshot, enumerated by Object.entries in key order.
Conn(st) == [status |-> st, par |-> DaemonParams]
ResponsesOf(statuses) ==
    UNION {{[k \in DOMAIN ids |-> [id |-> ids[k], conn |-> Conn(sts[k])]]
              : sts \in [DOMAIN ids -> statuses]} : ids \in IdLists}
ListResponses == ResponsesOf(Status)

\* ------------------------------------------------------------- variables
VARIABLES
    heap,       \* the JavaScript arrays that are still referenced: ref -> sequence of Network
    cur,        \* the reference held by the `networks` state cell
    rendered,   \* the reference captured by the closures of the last render
    error,      \* the `error` state cell
    mounted,    \* the component that called useWebmesh is mounted
    session,    \* number of runs of the session effect so far
    effInterval,\* `interval` as seen by the cleanup of the last effect run
    timers,     \* list-refresh timers armed in the host's timer table
    tornDown,   \* list-refresh timers whose session's cleanup has run
    polls,      \* listConnections RPCs in flight that the effect or its timers issued:
                \* issuer (a timer, or NoTimer for the effect) -> number in flight
    nTicks,     \* firings of list-refresh timers so far
    ops,        \* the workflow calls of the user that have not settled: slot -> call record
    mctx,       \* the component that evaluates deviceMetrics(id)
    mtimers,    \* metrics timers armed in the host's timer table
    mrpcs,      \* metrics RPCs in flight
    nMTimers,   \* metrics timers created so far
    nMRpcs,     \* metrics RPCs issued so far
    last        \* what the last step did: a list response delivered, a call
                \* settled, a timer fired

regVars == <<heap, cur, rendered>>
sessVars == <<mounted, session, effInterval, timers, tornDown>>
pollVars == <<polls, nTicks>>
metVars == <<mctx, mtimers, mrpcs, nMTimers, nMRpcs>>
vars == <<heap, cur, rendered, error, mounted, session, effInterval, timers, tornDown,
          polls, nTicks, ops, mctx, mtimers, mrpcs, nMTimers, nMRpcs, last>>

\* ------------------------------------------------------------------ heap
\* Arrays are identified by reference.  A slot whose array nothing refers to
\* any more is empty and is the one the next `new Array` takes.
MaxRefs == MaxOps + MaxMTimers + 3
Refs == 0..(MaxRefs - 1)
NoRef == MaxRefs
OpSlots == 1..MaxOps
Issuers == {NoTimer} \cup 1..MaxSessions

\* the call still holds the `networks` of its closure for a later
\* upsertNetwork/removeNetwork
UsesRef(op) ==
    \/ op.rpc1 \in {"put", "get"} /\ op.s1 = "pending"
    \/ op.kind = "drop" /\ op.ent = "pending"

Live(c, rd, os, mt) ==
    {c, rd} \cup {os[o].ref : o \in {x \in OpSlots : UsesRef(os[x])}}
            \cup {t.ref : t \in mt}

Swept(h, live) == [r \in Refs |-> IF r \in live THEN h[r] ELSE << >>]

FreeRef(live) == CHOOSE r \in Refs : r \notin live /\ \A q \in Refs : q < r => q \in live

\* -------------------------------------------------------------- registry
\* new Network(client, id, conn)
Network(id, conn) == [id |-> id, status |-> conn.status, par |-> conn.par]

\* networks.findIndex((c) => c.id === id); 0 stands for -1
FindIndex(s, id) ==
    IF \E i \in DOMAIN s : s[i].id = id
    THEN CHOOSE i \in DOMAIN s : s[i].id = id /\ \A j \in 1..(i-1) : s[j].id # id
    ELSE 0

\* networks.splice(i, 1)
SpliceOut(s, i) == [k \in 1..(Len(s)-1) |-> IF k < i THEN s[k] ELSE s[k+1]]

\* an upsertNetwork that always pushes
UpsertPushing(s, conn) == Append(s, conn)

\* the array after upsertNetwork(conn)
Upsert(s, conn) ==
    LET i == FindIndex(s, conn.id)
    IN IF i > 0 THEN [s EXCEPT ![i] = conn] ELSE Append(s, conn)

\* the array after removeNetwork(id)
Remove(s, id) ==
    LET i == FindIndex(s, id)
    IN IF i > 0 THEN SpliceOut(s, i) ELSE s

\* a listNetworks that merges the response into the current array
RECURSIVE UpsertAll(_, _)
UpsertAll(s, data) ==
    IF data = << >> THEN s ELSE UpsertAll(Upsert(s, Head(data)), Tail(data))
BuildDataMerging(resp) ==
    UpsertAll(heap[cur], [k \in DOMAIN resp |-> Network(resp[k].id, resp[k].conn)])

\* the array `data` that listNetworks builds from a response
BuildData(resp) == [k \in DOMAIN resp |-> Network(resp[k].id, resp[k].conn)]

\* what React's setNetworks/setError leave in a cell: an unmounted component
\* has no state, the call is dropped
SetState(old, new) == IF mounted THEN new ELSE old

Registry == heap[cur]
IdsOf(s) == {s[k].id : k \in DOMAIN s}
IdSeq(s) == [k \in DOMAIN s |-> s[k].id]

\* ------------------------------------------------------------------ init
IdleOp == [kind |-> "none", id |-> NoId, hasP |-> FALSE, ref |-> NoRef,
           rpc1 |-> "none", s1 |-> "none", eid |-> NoId, ent |-> "none",
           res |-> "idle", pre |-> << >>, clean |-> TRUE, unrefreshed |-> TRUE]
DoneOp == [IdleOp EXCEPT !.kind = "done"]
NoEvent == [ev |-> "none", ids |-> << >>, call |-> IdleOp, tid |-> NoTimer]
Listed(resp) == [NoEvent EXCEPT !.ev = "list", !.ids = [k \in DOMAIN resp |-> resp[k].id]]
Settled(op) == [NoEvent EXCEPT !.ev = "settled", !.call = op]
Ticked(t) == [NoEvent EXCEPT !.ev = "tick", !.tid = t]
MetricsTicked(t, issued) ==
    [NoEvent EXCEPT !.ev = IF issued THEN "metrics" ELSE "skip", !.tid = t.tid]
NoCtx == [st |-> "none", id |-> NoId, first |-> NoTimer, metrics |-> "none"]

\* The state after the first render and the first run of the session effect:
\* networks is the empty array, the initial listNetworks() is in flight and
\* the first list-refresh timer is armed.
Init ==
    /\ heap = [r \in Refs |-> << >>]
    /\ cur = 0
    /\ rendered = 0
    /\ error = "none"
    /\ mounted = TRUE
    /\ session = 1
    /\ effInterval = 1
    /\ timers = {1}
    /\ tornDown = {}
    /\ polls = [t \in Issuers |-> IF t = NoTimer THEN 1 ELSE 0]
    /\ nTicks = 0
    /\ ops = [o \in OpSlots |-> IdleOp]
    /\ mctx = NoCtx
    /\ mtimers = {}
    /\ mrpcs = {}
    /\ nMTimers = 0
    /\ nMRpcs = 0
    /\ last = NoEvent

\* the arrays after a step that allocated or changed none: what the step
\* stopped referring to is collected
Sweep == heap' = Swept(heap, Live(cur', rendered', ops', mtimers'))

\* ---------------------------------------------------------------- render
\* React re-renders the component after the state cell changed; the closures
\* of the new render capture the array the cell holds now.
Render ==
    /\ mounted
    /\ rendered # cur
    /\ rendered' = cur
    /\ last' = NoEvent
    /\ UNCHANGED <<cur, error, ops>>
    /\ UNCHANGED <<sessVars, pollVars, metVars>>
    /\ Sweep

\* ------------------------------------------------------ list-refresh timer
\* a cleanup that leaves the timer armed
CleanupNothing(tbl, interval) == tbl

\* the cleanup function returned by the session effect
Cleanup(tbl, interval) == IF interval # NoTimer THEN tbl \ {interval} ELSE tbl

\* the callback of the list-refresh timer: listNetworks().catch(setError)
ListTick(t) ==
    /\ t \in timers
    /\ nTicks < MaxTicks
    /\ nTicks' = nTicks + 1
    /\ polls' = [polls EXCEPT ![t] = @ + 1]
    /\ last' = Ticked(t)
    /\ UNCHANGED <<regVars, error, ops>>
    /\ UNCHANGED <<sessVars, metVars>>

\* the calls that have not settled, marked as having seen another write of
\* the registry, by call o or (o = 0) by a list refresh
Dirty(os, o) ==
    [q \in OpSlots |->
        IF q # o /\ os[q].res = "pending" /\ os[q].kind = "connect"
        THEN [os[q] EXCEPT !.clean = FALSE]
        ELSE IF o = 0 /\ os[q].res = "pending" /\ os[q].kind = "drop"
        THEN [os[q] EXCEPT !.unrefreshed = FALSE]
        ELSE os[q]]

\* the .then of listNetworks: setNetworks(data) with a fresh array
ListApply(resp) ==
    LET r == FreeRef(Live(cur, rendered, ops, mtimers))
    IN /\ cur' = SetState(cur, r)
       /\ last' = Listed(resp)
       /\ UNCHANGED rendered
       /\ heap' = Swept([heap EXCEPT ![r] = BuildData(resp)],
                        Live(cur', rendered', ops', mtimers'))

\* listConnections answered for a call of the effect or of its timer
PollOk(p, resp) ==
    /\ polls[p] > 0
    /\ polls' = [polls EXCEPT ![p] = @ - 1]
    /\ ops' = Dirty(ops, 0)
    /\ UNCHANGED <<error, nTicks>>
    /\ UNCHANGED <<sessVars, metVars>>
    /\ ListApply(resp)

\* a .catch that drops the error
PollFailSilent(p) ==
    /\ polls[p] > 0
    /\ polls' = [polls EXCEPT ![p] = @ - 1]
    /\ last' = NoEvent
    /\ UNCHANGED <<regVars, error, nTicks, ops>>
    /\ UNCHANGED <<sessVars, metVars>>

\* listConnections failed for a call of the effect or of its timer
PollFail(p) ==
    /\ polls[p] > 0
    /\ polls' = [polls EXCEPT ![p] = @ - 1]
    /\ error' = SetState(error, "listErr")
    /\ last' = NoEvent
    /\ UNCHANGED <<regVars, nTicks, ops>>
    /\ UNCHANGED <<sessVars, metVars>>

\* the cleanup of deviceMetrics' effect, run when its component goes away
MetricsCleanup(ctx, tbl) == {t \in tbl : t.tid # ctx.first}

\* the options changed: React renders, runs the cleanup of the previous
\* effect and runs the effect again
OptsChange ==
    /\ mounted
    /\ session < MaxSessions
    /\ LET interval0 == NoTimer                 \* `let interval` of the new render
           tbl1 == Cleanup(timers, effInterval)  \* cleanup of the previous effect
           tbl2 == Cleanup(tbl1, interval0)      \* if (interval) clearInterval(interval)
           t == session + 1                      \* setInterval
       IN /\ timers' = tbl2 \cup {t}
          /\ effInterval' = t
          /\ tornDown' = tornDown \cup {effInterval}
    /\ session' = session + 1
    /\ rendered' = cur
    /\ polls' = [polls EXCEPT ![NoTimer] = @ + 1]
    /\ last' = NoEvent
    /\ UNCHANGED <<cur, error, mounted, ops, nTicks, metVars>>
    /\ Sweep

\* the component unmounts: React runs the cleanup of the last effect, and
\* that of the deviceMetrics effect of a component below it
Unmount ==
    /\ mounted
    /\ mounted' = FALSE
    /\ timers' = Cleanup(timers, effInterval)
    /\ tornDown' = tornDown \cup {effInterval}
    /\ IF mctx.st = "live"
       THEN /\ mctx' = [mctx EXCEPT !.st = "ended"]
            /\ mtimers' = MetricsCleanup(mctx, mtimers)
       ELSE UNCHANGED <<mctx, mtimers>>
    /\ last' = NoEvent
    /\ UNCHANGED <<cur, rendered, error, session, effInterval, ops, pollVars,
                   mrpcs, nMTimers, nMRpcs>>
    /\ Sweep

\* -------------------------------------------------------- workflow calls
\* A call record: kind of the call, its id argument, whether parameters or
\* metadata were given, the `networks` array of the closure it was made from,
\* the RPC of its first step and that step's state, the id of the entity the
\* first step produced, the state of the entity-level RPC, and how the
\* promise returned to the caller settled.  pre is the registry at the time
\* of the call and clean says that no other call or refresh has written the
\* registry since (both kept for connect, the call they are read for);
\* unrefreshed says that no list refresh has completed since the call (kept
\* for dropNetwork).
Call(kind, id, hasP, rpc1) ==
    [kind |-> kind, id |-> id, hasP |-> hasP,
     ref |-> IF rpc1 \in {"put", "get"} THEN rendered ELSE NoRef,
     rpc1 |-> rpc1, s1 |-> IF rpc1 = "none" THEN "none" ELSE "pending",
     eid |-> NoId, ent |-> "none",
     res |-> IF rpc1 = "none" THEN "invalid" ELSE "pending",
     pre |-> IF kind = "connect" THEN Registry ELSE << >>, clean |-> TRUE,
     unrefreshed |-> TRUE]

\* slots are taken in order
CanStart(o) ==
    /\ mounted
    /\ ops[o].kind = "none"
    /\ \A q \in OpSlots : q < o => ops[q].kind # "none"

\* the slot and the event of a call after a step of it
Advance(o, op) ==
    IF op.res = "pending"
    THEN /\ ops' = [ops EXCEPT ![o] = op]
         /\ last' = NoEvent
    ELSE /\ ops' = [ops EXCEPT ![o] = DoneOp]
         /\ last' = Settled(op)

\* as Advance, for a step that wrote the registry
AdvanceW(o, op) ==
    IF op.res = "pending"
    THEN /\ ops' = [Dirty(ops, o) EXCEPT ![o] = op]
         /\ last' = NoEvent
    ELSE /\ ops' = [Dirty(ops, o) EXCEPT ![o] = DoneOp]
         /\ last' = Settled(op)

Start(o, call) ==
    /\ CanStart(o)
    /\ Advance(o, call)
    /\ UNCHANGED <<regVars, error, pollVars, sessVars, metVars>>

\* listNetworks()
ListNetworksCall(o) ==
    /\ Start(o, Call("list", NoId, FALSE, "list"))

\* putNetwork(params)
PutNetworkCall(o, id) ==
    /\ Start(o, Call("put", id, TRUE, "put"))

\* getNetwork(id)
GetNetworkCall(o, id) ==
    /\ Start(o, Call("get", id, FALSE, "get"))

\* a connect that does not check for the id
ConnectPathNoIdCheck(hasP, id) == IF hasP THEN "put" ELSE "get"

\* a connect that looks at the id first
ConnectPathIdFirst(hasP, id) ==
    IF id # NoId THEN "get" ELSE IF hasP THEN "put" ELSE "none"

\* the branch connect(params) takes
ConnectPath(hasP, id) ==
    IF hasP THEN "put" ELSE IF id # NoId THEN "get" ELSE "none"

\* connect(params)
ConnectCall(o, id, hasP) ==
    /\ Start(o, Call("connect", id, hasP, ConnectPath(hasP, id)))

\* disconnect(id)
DisconnectCall(o, id) ==
    /\ Start(o, Call("disconnect", id, FALSE, "get"))

\* dropNetwork(id)
DropNetworkCall(o, id) ==
    /\ Start(o, Call("drop", id, FALSE, "get"))

\* the state of the entity-level RPC of a call once its first step resolved
EntityRpc(kind) ==
    IF kind \in {"connect", "disconnect", "drop"} THEN "pending" ELSE "none"

\* a call that goes on to its entity-level RPC after a failed first step
EntityRpcAnyway(kind) ==
    IF kind \in {"connect", "disconnect", "drop"} THEN "pending" ELSE "none"

\* the state of the entity-level RPC of a call once its first step failed
EntityRpcOnFail(kind) == "none"

\* the error a call rejects with when an RPC of the given name fails
ErrorOf(rpc) ==
    CASE rpc = "list" -> "listErr"
      [] rpc = "put" -> "putErr"
      [] rpc = "get" -> "getErr"
      [] rpc = "connect" -> "connectErr"
      [] rpc = "disconnect" -> "disconnectErr"
      [] rpc = "drop" -> "dropErr"

\* a call's record once it no longer holds its array
Released(op) == IF UsesRef(op) THEN op ELSE [op EXCEPT !.ref = NoRef]

\* the record of a call whose first step resolved; conn carries the id of
\* the daemon's answer (res.id of putConnection, the id asked of getConnection)
Step1Done(op, conn) ==
    Released([op EXCEPT !.s1 = "ok", !.eid = conn.id, !.ent = EntityRpc(op.kind),
                        !.res = IF EntityRpc(op.kind) = "none" THEN "resolved" ELSE "pending"])

\* the record of a call whose first step failed
Step1Failed(op) ==
    Released([op EXCEPT !.s1 = "fail", !.ent = EntityRpcOnFail(op.kind),
                        !.res = ErrorOf(op.rpc1)])

\* a dropNetwork without its .finally
FinallyNothing(op, s) == s

\* the .finally of dropNetwork: removeNetwork(id)
Finally(op, s) == IF op.kind = "drop" THEN Remove(s, op.id) ELSE s

\* what the .then of the drop RPC does to the array: removeNetwork(id)
AfterDrop(op, s) == Remove(s, op.id)

\* a registry write of a call: the array of its closure is changed in place
\* and stored in the state cell
Write(o, s) ==
    /\ cur' = SetState(cur, ops[o].ref)
    /\ UNCHANGED rendered
    /\ heap' = Swept([heap EXCEPT ![ops[o].ref] = s],
                     Live(cur', rendered', ops', mtimers'))

NoWrite ==
    /\ UNCHANGED <<cur, rendered>>
    /\ Sweep

\* listConnections answered for a call of the user
ListOk(o, resp) ==
    /\ ops[o].rpc1 = "list" /\ ops[o].s1 = "pending"
    /\ ops' = [Dirty(ops, 0) EXCEPT ![o] = DoneOp]
    /\ UNCHANGED <<error, pollVars, sessVars, metVars>>
    /\ ListApply(resp)

\* a .catch that also hands the error to setError
Step1FailShared(o) ==
    /\ ops[o].s1 = "pending"
    /\ error' = SetState(error, ErrorOf(ops[o].rpc1))
    /\ UNCHANGED <<pollVars, sessVars, metVars>>
    /\ IF ops[o].kind = "drop"
       THEN /\ AdvanceW(o, Step1Failed(ops[o]))
            /\ Write(o, Finally(ops[o], heap[ops[o].ref]))
       ELSE /\ Advance(o, Step1Failed(ops[o]))
            /\ NoWrite

\* the first-step RPC of a call failed
Step1Fail(o) ==
    /\ ops[o].s1 = "pending"
    /\ UNCHANGED <<error, pollVars, sessVars, metVars>>
    /\ IF ops[o].kind = "drop"
       THEN /\ AdvanceW(o, Step1Failed(ops[o]))
            /\ Write(o, Finally(ops[o], heap[ops[o].ref]))
       ELSE /\ Advance(o, Step1Failed(ops[o]))
            /\ NoWrite

\* a putNetwork that builds its entity with the id of the request
PutEntityOfRequest(op, rid) ==
    Network(op.id, [status |-> "disconnected", par |-> CallerParams])

\* the entity putNetwork builds from the response of putConnection
PutEntity(op, rid) ==
    Network(rid, [status |-> "disconnected", par |-> CallerParams])

\* putConnection answered with res.id = rid
PutOk(o, rid) ==
    /\ ops[o].rpc1 = "put" /\ ops[o].s1 = "pending"
    /\ UNCHANGED <<error, pollVars, sessVars, metVars>>
    /\ LET res == [id |-> rid]
           conn == PutEntity(ops[o], res.id)
       IN /\ AdvanceW(o, Step1Done(ops[o], res))
          /\ Write(o, Upsert(heap[ops[o].ref], conn))

\* getConnection answered with a snapshot of status st
GetOk(o, st) ==
    /\ ops[o].rpc1 = "get" /\ ops[o].s1 = "pending"
    /\ UNCHANGED <<error, pollVars, sessVars, metVars>>
    /\ LET conn == Network(ops[o].id, Conn(st))
       IN /\ AdvanceW(o, Step1Done(ops[o], conn))
          /\ Write(o, Finally(ops[o], Upsert(heap[ops[o].ref], conn)))

\* the entity-level RPC of a call answered
EntityOk(o) ==
    /\ ops[o].ent = "pending"
    /\ UNCHANGED <<error, pollVars, sessVars, metVars>>
    /\ LET op == [ops[o] EXCEPT !.ent = "ok", !.res = "resolved"]
       IN IF ops[o].kind = "drop"
          THEN /\ AdvanceW(o, op)
               /\ Write(o, AfterDrop(ops[o], heap[ops[o].ref]))
          ELSE /\ Advance(o, op)
               /\ NoWrite

\* the entity-level RPC of a call failed
EntityFail(o) ==
    /\ ops[o].ent = "pending"
    /\ Advance(o, [ops[o] EXCEPT !.ent = "fail", !.res = ErrorOf(ops[o].kind)])
    /\ UNCHANGED <<error, pollVars, sessVars, metVars>>
    /\ NoWrite

\* --------------------------------------------------------- deviceMetrics
\* the closure of a metrics timer: the id and the `networks` of the render
\* deviceMetrics was taken from.  A component evaluates deviceMetrics while
\* React renders, and a render pass applies the pending state updates first:
\* the closures are those of a render that sees the current state cell.
MTimer(tid, id) == [tid |-> tid, id |-> id, ref |-> cur]

\* first evaluation of deviceMetrics(id) by a component: useState,
\* setInterval, and the effect that registers the cleanup
MetricsMount(id) ==
    /\ mounted
    /\ mctx.st = "none"
    /\ nMTimers < MaxMTimers
    /\ nMTimers' = nMTimers + 1
    /\ mtimers' = mtimers \cup {MTimer(nMTimers + 1, id)}
    /\ mctx' = [st |-> "live", id |-> id, first |-> nMTimers + 1, metrics |-> "none"]
    /\ rendered' = cur
    /\ last' = NoEvent
    /\ UNCHANGED <<cur, error, ops, mrpcs, nMRpcs, pollVars, sessVars>>
    /\ Sweep

\* the component renders again and evaluates deviceMetrics(id) again:
\* setInterval runs again, the effect (no dependencies) does not
MetricsRerender ==
    /\ mounted
    /\ mctx.st = "live"
    /\ nMTimers < MaxMTimers
    /\ nMTimers' = nMTimers + 1
    /\ mtimers' = mtimers \cup {MTimer(nMTimers + 1, mctx.id)}
    /\ rendered' = cur
    /\ last' = NoEvent
    /\ UNCHANGED <<cur, error, ops, mctx, mrpcs, nMRpcs, pollVars, sessVars>>
    /\ Sweep

\* the component that evaluates deviceMetrics goes away
MetricsUnmount ==
    /\ mctx.st = "live"
    /\ mctx' = [mctx EXCEPT !.st = "ended"]
    /\ mtimers' = MetricsCleanup(mctx, mtimers)
    /\ last' = NoEvent
    /\ UNCHANGED <<cur, rendered, error, ops, mrpcs, nMTimers, nMRpcs, pollVars, sessVars>>
    /\ Sweep

\* the timer callback calls conn.metrics()
TickIssues(t) ==
    LET i == FindIndex(heap[t.ref], t.id)
    IN i > 0 /\ heap[t.ref][i].status = "connected"

\* a metrics timer fires
MetricsTick(t) ==
    /\ t \in mtimers
    /\ nMRpcs < MaxMRpcs
    /\ IF TickIssues(t)
       THEN /\ nMRpcs' = nMRpcs + 1
            /\ mrpcs' = mrpcs \cup {[n |-> nMRpcs + 1, tid |-> t.tid]}
       ELSE UNCHANGED <<mrpcs, nMRpcs>>
    /\ last' = MetricsTicked(t, TickIssues(t))
    /\ UNCHANGED <<regVars, error, ops, mctx, mtimers, nMTimers, pollVars, sessVars>>

\* conn.metrics() answered: setMetrics(metrics)
MetricsOk(r) ==
    /\ r \in mrpcs
    /\ mrpcs' = mrpcs \ {r}
    /\ mctx' = IF mctx.st = "live" THEN [mctx EXCEPT !.metrics = "sample"] ELSE mctx
    /\ last' = NoEvent
    /\ UNCHANGED <<regVars, error, ops, mtimers, nMTimers, nMRpcs, pollVars, sessVars>>

\* conn.metrics() failed: setError(err)
MetricsFail(r) ==
    /\ r \in mrpcs
    /\ mrpcs' = mrpcs \ {r}
    /\ error' = SetState(error, "metricsErr")
    /\ last' = NoEvent
    /\ UNCHANGED <<regVars, ops, mctx, mtimers, nMTimers, nMRpcs, pollVars, sessVars>>

\* ------------------------------------------------------------------ next
Refresh(responses) ==
    \/ Render
    \/ \E p \in Issuers, resp \in responses : PollOk(p, resp)
    \/ \E p \in Issuers : PollFail(p)

Timer == \E t \in timers : ListTick(t)

Lifecycle ==
    \/ OptsChange
    \/ Unmount

Workflow(responses) ==
    \/ \E o \in OpSlots : ListNetworksCall(o)
    \/ \E o \in OpSlots, id \in Ids \cup {NoId} : PutNetworkCall(o, id)
    \/ \E o \in OpSlots, id \in Ids : GetNetworkCall(o, id)
    \/ \E o \in OpSlots, id \in Ids \cup {NoId}, hasP \in BOOLEAN : ConnectCall(o, id, hasP)
    \/ \E o \in OpSlots, id \in Ids : DisconnectCall(o, id)
    \/ \E o \in OpSlots, id \in Ids : DropNetworkCall(o, id)
    \/ \E o \in OpSlots, resp \in responses : ListOk(o, resp)
    \/ \E o \in OpSlots : Step1Fail(o)
    \/ \E o \in OpSlots, rid \in Ids : PutOk(o, rid)
    \/ \E o \in OpSlots, st \in Status : GetOk(o, st)
    \/ \E o \in OpSlots : EntityOk(o)
    \/ \E o \in OpSlots : EntityFail(o)

Metrics ==
    \/ \E id \in Ids : MetricsMount(id)
    \/ MetricsRerender
    \/ MetricsUnmount
    \/ \E t \in mtimers : MetricsTick(t)
    \/ \E r \in mrpcs : MetricsOk(r)
    \/ \E r \in mrpcs : MetricsFail(r)

Next == Refresh(ListResponses) \/ Timer \/ Lifecycle \/ Workflow(ListResponses) \/ Metrics

Spec == Init /\ [][Next]_vars

\* the workflow calls against a session whose options do not change; the
\* refreshes they race with are the one the session effect starts and the
\* listNetworks() calls of the user, which run the code the timer runs
SpecWork == Init /\ [][Refresh(ListResponses) \/ Workflow(ListResponses)]_vars

\* the session and its list-refresh timer
SpecSession == Init /\ [][Refresh(ListResponses) \/ Timer \/ Lifecycle]_vars

\* the first firing of a list-refresh timer
TimerOnce == nTicks = 0 /\ Timer

\* the metrics timers, beside a list-refresh timer that fires once
SpecMetrics == Init /\ [][Refresh(ListResponses) \/ TimerOnce \/ Lifecycle \/ Metrics]_vars

\* ================================================================ claims
\* P holds of the calls in flight and of the call the last step settled
AllCalls(P(_)) == P(last.call) /\ \A o \in OpSlots : P(ops[o])
RangeOf(sq) == {sq[k] : k \in DOMAIN sq}

\* C1: after a listNetworks() that succeeded, whether called by the user, by
\* the session effect or by its timer, the registry holds exactly the ids of
\* the daemon's listConnections response, each once.
C1_ListReplaces ==
    (last.ev = "list" /\ mounted) =>
        /\ IdsOf(Registry) = RangeOf(last.ids)
        /\ Len(Registry) = Len(last.ids)

\* a refresh answered with n1 alone while the array of the previous render,
\* the registry until then, still holds n2
C1_Witness ==
    /\ last.ev = "list" /\ last.ids = <<"n1">>
    /\ rendered # cur /\ "n2" \in IdsOf(heap[rendered])

\* C2 (as claimed): when dropNetwork(id) reached the drop RPC, that RPC failed
\* and no list refresh completed since the call, the call rejects with the
\* drop RPC's error and id is absent from the registry when it settles.
C2_DropFailureRemoves ==
    (/\ last.ev = "settled" /\ last.call.kind = "drop"
     /\ last.call.ent = "fail" /\ last.call.unrefreshed /\ mounted) =>
        /\ last.call.res = "dropErr"
        /\ last.call.id \notin IdsOf(Registry)

\* C3: connect(params) without id, parameters and metadata rejects with the
\* locally made invalid-argument error, has issued no RPC, and the registry is
\* what it was when the call was made.
C3_Of(c) ==
    (c.kind = "connect" /\ ~c.hasP /\ c.id = NoId) =>
        /\ c.res = "invalid"
        /\ c.rpc1 = "none" /\ c.s1 = "none" /\ c.ent = "none"
        /\ last.ev = "settled" /\ Registry = c.pre
C3_ConnectNothing == AllCalls(C3_Of)

C3_Witness ==
    /\ last.ev = "settled" /\ last.call.kind = "connect"
    /\ ~last.call.hasP /\ last.call.id = NoId
    /\ Registry # << >>

\* C4: connect(params) issues putConnection, and no getConnection, when
\* parameters or metadata are present, with or without an id; otherwise, with
\* an id, it issues getConnection and no putConnection.  It resolves only
\* after its first step and the entity-level connect RPC have succeeded.
C4_Of(c) ==
    c.kind = "connect" =>
        /\ c.hasP => c.rpc1 = "put"
        /\ (~c.hasP /\ c.id # NoId) => c.rpc1 = "get"
        /\ c.res = "resolved" => (c.s1 = "ok" /\ c.ent = "ok")
C4_ConnectPaths == AllCalls(C4_Of)

C4_Witness ==
    /\ last.ev = "settled" /\ last.call.kind = "connect"
    /\ last.call.hasP /\ last.call.id # NoId
    /\ last.call.res = "resolved"

\* C5 (as claimed): when the put/get step of connect(params) succeeded, the
\* entity-level connect RPC failed, and nothing else wrote the registry since
\* the call, the call rejects with the connect RPC's error and the registry is
\* the registry at the time of the call with the entity of the first step
\* upserted.
C5_ConnectFailureKeepsUpsert ==
    (/\ last.ev = "settled" /\ last.call.kind = "connect"
     /\ last.call.s1 = "ok" /\ last.call.ent = "fail"
     /\ last.call.clean /\ mounted) =>
        /\ last.call.res = "connectErr"
        /\ \E e \in Entity : e.id = last.call.eid /\ Registry = Upsert(last.call.pre, e)

\* C6: connect, disconnect and dropNetwork issue their entity-level RPC only
\* after their first step has resolved; when the first step fails, no
\* entity-level RPC is issued and the call rejects with the error of that step.
C6_Of(c) ==
    c.kind \in {"connect", "disconnect", "drop"} =>
        /\ c.ent # "none" => c.s1 = "ok"
        /\ c.s1 = "fail" =>
            /\ c.ent = "none"
            /\ c.rpc1 = "get" => c.res = "getErr"
            /\ c.rpc1 = "put" => c.res = "putErr"
C6_StepsInOrder == AllCalls(C6_Of)

C6_Witness ==
    /\ last.ev = "settled" /\ last.call.kind = "drop"
    /\ last.call.s1 = "fail" /\ last.call.res = "getErr"

\* C7: once the cleanup of a session has run, the list-refresh timer of that
\* session fires no more, and so issues no listConnections RPC, also when the
\* session is created again after an options change.
C7_NoTickAfterTeardown ==
    last.ev = "tick" => last.tid \notin tornDown

\* the timer of the second session fires after the first session was torn down
C7_Witness ==
    /\ last.ev = "tick" /\ tornDown # {}

\* C8 (as claimed): once the component that evaluates deviceMetrics has gone
\* away, no timer created for its observable issues a metrics RPC.
C8_NoMetricsAfterTeardown ==
    last.ev = "metrics" => mctx.st # "ended"

\* C9 (as claimed): the response to a listConnections RPC that a timer issued
\* before its session was torn down, or to a metrics RPC of the timer that the
\* teardown of the observable cancelled, changes neither the registry nor the
\* metrics observable nor the session error.
C9_StaleResponseNotApplied ==
    [][ (\/ \E t \in tornDown : polls'[t] < polls[t]
         \/ /\ mctx.st = "ended"
            /\ \E r \in mrpcs \ mrpcs' : r.tid = mctx.first)
        => (Registry' = Registry /\ error' = error /\ mctx'.metrics = mctx.metrics) ]_vars

\* C10 (as claimed): a metrics timer that fires issues a metrics RPC only if
\* the registry holds, at that moment, an entry for its id whose status is
\* connected.
C10_MetricsOnlyWhenConnected ==
    last.ev = "metrics" =>
        \E k \in DOMAIN Registry :
            Registry[k].id = mctx.id /\ Registry[k].status = "connected"

\* the list-refresh timers
ListTimers == 1..MaxSessions

\* C11: when the listConnections RPC of a list-refresh timer's tick fails
\* while the session is alive, the failure becomes the session error, the
\* registry stays the array it was, and the timer table is untouched; a
\* timer that fires is armed and issues one more listConnections RPC.
C11_TickFailure ==
    [][ \A t \in ListTimers :
          /\ (polls'[t] < polls[t] /\ last'.ev # "list" /\ mounted) =>
                /\ error' = "listErr"
                /\ cur' = cur /\ Registry' = Registry
                /\ timers' = timers
          /\ (last'.ev = "tick" /\ last'.tid = t) =>
                /\ t \in timers
                /\ polls'[t] = polls[t] + 1 ]_vars

\* the timer of the first session has fired again, and its RPC is in flight,
\* after the RPC of its earlier tick failed: the initial refresh of the
\* session is still in flight, so the error is that of the earlier tick
C11_Witness ==
    /\ last.ev = "tick" /\ last.tid = 1 /\ polls[1] = 1
    /\ error = "listErr"
    /\ session = 1 /\ polls[NoTimer] = 1 /\ mounted

\* C12 (as claimed): when the session error holds the failure of an earlier
\* tick and the listConnections RPC of the next tick succeeds, the session
\* error is cleared.
C12_SuccessClearsError ==
    [][ \A t \in ListTimers :
          (/\ last.ev = "tick" /\ last.tid = t /\ polls[t] = 1
           /\ error = "listErr" /\ session = 1 /\ polls[NoTimer] = 1 /\ mounted
           /\ polls'[t] < polls[t] /\ last'.ev = "list") =>
              error' = "none" ]_vars

\* the step is one of call o: the call is made, or one of its RPCs is answered
Acting(o) ==
    <<ops'[o].kind, ops'[o].s1, ops'[o].ent>> # <<ops[o].kind, ops[o].s1, ops[o].ent>>

\* the errors a call of the user can reject with
Rejections == {"invalid", "listErr", "putErr", "getErr", "connectErr",
               "disconnectErr", "dropErr"}

\* C13: no step of a call of the user (listNetworks, putNetwork, getNetwork,
\* connect, disconnect, dropNetwork), failing or not, changes the session
\* error; the session error changes only when a listConnections RPC of the
\* session effect or of its timer, or a metrics RPC, is answered.
C13_WorkflowErrorsNotShared ==
    [][ /\ (\E o \in OpSlots : Acting(o)) => error' = error
        /\ (last'.ev = "settled" /\ last'.call.res \in Rejections) => error' = error
        /\ error' # error =>
              \/ \E p \in Issuers : polls'[p] < polls[p]
              \/ \E r \in mrpcs : r \notin mrpcs' ]_vars

\* a disconnect has been rejected with the error of its entity-level RPC and
\* the session error is still unset
C13_Witness ==
    /\ last.ev = "settled" /\ last.call.kind = "disconnect"
    /\ last.call.res = "disconnectErr"
    /\ error = "none"

\* C14 (as claimed): when a list refresh has just completed and the response
\* to a getNetwork(id) issued before it arrives next, the registry holds the
\* ids of the refresh's snapshot and id, and no other id.
C14_GetAfterRefresh ==
    [][ \A o \in OpSlots :
          (/\ last.ev = "list" /\ mounted
           /\ ops[o].kind = "get" /\ ops[o].s1 = "pending"
           /\ last'.ev = "settled" /\ last'.call.kind = "get"
           /\ last'.call.res = "resolved" /\ ops'[o] = DoneOp) =>
              IdsOf(Registry') = RangeOf(last.ids) \cup {last'.call.id} ]_vars

\* the ids of the registry after a step, by the claim: those of the snapshot
\* after a list refresh; after a step of a call, the ids before it with the
\* id the step upserts added and the id it removes taken away
UpsertedBy(a) == IF a.s1 = "ok" THEN {a.eid} ELSE {}
RemovedBy(a) == IF a.kind = "drop" /\ a.ent # "fail" THEN {a.id} ELSE {}
StepIds(o) ==
    LET a == IF ops'[o] = DoneOp THEN last'.call ELSE ops'[o]
    IN IF ops[o].s1 = "pending" /\ a.s1 # "pending"
       THEN (IdsOf(Registry) \cup UpsertedBy(a)) \ RemovedBy(a)
       ELSE IF ops[o].ent = "pending" /\ a.ent # "pending"
       THEN IdsOf(Registry) \ RemovedBy(a)
       ELSE IdsOf(Registry)

\* C15 (as claimed): the ids of the registry are those of the last list
\* refresh that completed, changed by the upserts and removals of the steps
\* of calls that completed after it, one step at a time.
C15_RegistryFollowsRefresh ==
    [][ mounted =>
          IF last'.ev = "list"
          THEN IdsOf(Registry') = RangeOf(last'.ids)
          ELSE IF \E o \in OpSlots : Acting(o)
          THEN \A o \in OpSlots : Acting(o) => IdsOf(Registry') = StepIds(o)
          ELSE IdsOf(Registry') = IdsOf(Registry) ]_vars

\* C16: when putConnection answers a putNetwork(params), the call resolves
\* and the registry holds exactly one entry with the id of the answer, and
\* that entry has status disconnected and the caller's parameters and
\* metadata; when putConnection fails, the call rejects with that error and
\* the registry is the array it was, unchanged.
C16_PutNetwork ==
    [][ \A o \in OpSlots :
          (/\ ops[o].kind = "put" /\ ops[o].s1 = "pending" /\ mounted
           /\ ops'[o] = DoneOp /\ last'.ev = "settled") =>
              /\ last'.call.s1 = "ok" =>
                    /\ last'.call.res = "resolved"
                    /\ \E k \in DOMAIN Registry' :
                          /\ Registry'[k] = [id |-> last'.call.eid,
                                             status |-> "disconnected",
                                             par |-> CallerParams]
                          /\ \A j \in DOMAIN Registry' :
                                Registry'[j].id = last'.call.eid => j = k
              /\ last'.call.s1 = "fail" =>
                    /\ last'.call.res = "putErr"
                    /\ cur' = cur /\ Registry' = Registry ]_vars

\* a putNetwork asked for n1 has resolved, the daemon answered with another
\* id, and the registry holds a second entry beside the new one
C16_Witness ==
    /\ last.ev = "settled" /\ last.call.kind = "put" /\ last.call.res = "resolved"
    /\ last.call.id = "n1" /\ last.call.eid = "n2"
    /\ Len(Registry) = 2 /\ mounted

\* no two entries of the array have the same id
NoDuplicates(s) == \A i, j \in DOMAIN s : s[i].id = s[j].id => i = j

\* C17: in every state the registry holds no two entries with the same id.
C17_NoDuplicateIds == NoDuplicates(Registry)

\* a getNetwork(id) has resolved while another call for the same id, made
\* from the same render, is in flight, in a registry of two entries
C17_Witness ==
    /\ last.ev = "settled" /\ last.call.kind = "get" /\ last.call.res = "resolved"
    /\ Len(Registry) = 2
    /\ \E o \in OpSlots :
          /\ ops[o].kind = "connect" /\ ops[o].ent = "pending"
          /\ ops[o].eid = last.call.id /\ ~ops[o].clean

\* a list refresh has just put id back while a dropNetwork(id) that has
\* removed it locally waits for the answer to its drop RPC, the daemon's
\* snapshot dating from before the drop
Reintroduced(id) ==
    /\ last.ev = "list" /\ id \in RangeOf(last.ids) /\ id \in IdsOf(Registry)
    /\ mounted
    /\ \E o \in OpSlots :
          /\ ops[o].kind = "drop" /\ ops[o].id = id
          /\ ops[o].ent = "pending" /\ ~ops[o].unrefreshed

\* the step is a removal of id by a dropNetwork(id)
DropStep(id) ==
    \E o \in OpSlots : ops[o].kind = "drop" /\ ops[o].id = id /\ Acting(o)

\* C18 (as claimed): an id that a list refresh has put back into the
\* registry after a dropNetwork(id) removed it locally stays in the registry
\* until the next list refresh or removal of id.
C18_ReintroducedStays ==
    [][ \A id \in Ids :
          (Reintroduced(id) /\ last'.ev # "list" /\ ~DropStep(id)) =>
              id \in IdsOf(Registry') ]_vars

\* C19 (as claimed): when getConnection answers a dropNetwork(id) and the
\* drop RPC is issued, id, just upserted by the getNetwork step, is still in
\* the registry: the call removes it only once the drop RPC has settled.
C19_DropRemovesLast ==
    [][ \A o \in OpSlots :
          (/\ ops[o].kind = "drop" /\ ops[o].s1 = "pending" /\ mounted
           /\ ops'[o].kind = "drop" /\ ops'[o].ent = "pending") =>
              ops[o].id \in IdsOf(Registry') ]_vars

\* C20: when the getConnection RPC of a dropNetwork(id) fails, the call
\* issues no drop RPC and rejects with the getConnection error, and id is
\* not in the registry once it has settled.
C20_DropGetFailure ==
    (/\ last.ev = "settled" /\ last.call.kind = "drop"
     /\ last.call.s1 = "fail" /\ mounted) =>
        /\ last.call.ent = "none"
        /\ last.call.res = "getErr"
        /\ last.call.id \notin IdsOf(Registry)

\* such a dropNetwork(id) has settled beside a connect that was called when
\* the registry held id and has not written yet: the registry is the one of
\* that time without id
C20_Witness ==
    /\ last.ev = "settled" /\ last.call.kind = "drop" /\ last.call.s1 = "fail"
    /\ \E o \in OpSlots :
          /\ ops[o].kind = "connect" /\ ops[o].s1 = "pending"
          /\ last.call.id \in IdsOf(ops[o].pre)
          /\ Len(ops[o].pre) = 2
          /\ Registry = Remove(ops[o].pre, last.call.id)

====
